---- MODULE Spec2Model ----
(***************************************************************************)
(* The video-id extractor, the transcript fetch adapter, the transcript    *)
(* normalizer, the second formatting pass and the /process handler of the  *)
(* YouTube transcript summarizer.                                          *)
(*                                                                         *)
(* A string is a sequence of one-character strings; the regular            *)
(* expressions of the source are operators over such sequences.            *)
(***************************************************************************)
EXTENDS Integers, Sequences, FiniteSets, TLC

VARIABLES pc, url, video_id, raw, sentences, paragraphs, transcript, notes,
          recleaned, status, detail

vars == <<pc, url, video_id, raw, sentences, paragraphs, transcript, notes,
          recleaned, status, detail>>

(***************************************************************************)
(* Character classes of Python's re module, on the characters in use.      *)
(***************************************************************************)
LowerSeq == <<"a", "b", "c", "d", "e", "f", "g", "h", "i", "j", "k", "l", "m", "n", "o", "p", "q", "r", "s", "t", "u", "v", "w", "x", "y", "z">>

UpperSeq == <<"A", "B", "C", "D", "E", "F", "G", "H", "I", "J", "K", "L", "M", "N", "O", "P", "Q", "R", "S", "T", "U", "V", "W", "X", "Y", "Z">>

Lowercase == {LowerSeq[i] : i \in 1..Len(LowerSeq)}

Uppercase == {UpperSeq[i] : i \in 1..Len(UpperSeq)}

Digits == {"0", "1", "2", "3", "4", "5", "6", "7", "8", "9"}

\* [a-zA-Z0-9_-]
IdChars == Lowercase \cup Uppercase \cup Digits \cup {"_", "-"}

\* \w
WordChars == Lowercase \cup Uppercase \cup Digits \cup {"_"}

\* \s
SpaceChars == {" ", "\t", "\n", "\r", "\f"}

\* [.,!?]
PunctChars == {".", ",", "!", "?"}

\* [.!?]
SentenceEnd == {".", "!", "?"}

\* str.lower() and re.IGNORECASE, one character
Lower(c) == IF c \in Uppercase
            THEN LowerSeq[CHOOSE i \in 1..Len(UpperSeq) : UpperSeq[i] = c]
            ELSE c

LowerStr(s) == [i \in 1..Len(s) |-> Lower(s[i])]

\* s[i:] starts with the literal lit
MatchAt(s, i, lit) ==
    /\ i + Len(lit) - 1 <= Len(s)
    /\ \A k \in 1..Len(lit) : s[i + k - 1] = lit[k]

\* `needle in haystack`
Contains(haystack, needle) ==
    \E i \in 1..(Len(haystack) + 1) : MatchAt(haystack, i, needle)

\* sep.join(parts)
RECURSIVE Join(_, _)
Join(parts, sep) ==
    IF parts = <<>> THEN <<>>
    ELSE IF Len(parts) = 1 THEN parts[1]
    ELSE parts[1] \o sep \o Join(Tail(parts), sep)

(***************************************************************************)
(* extract_video_id                                                        *)
(***************************************************************************)
\* {11}
IdLen == 11

\* ([a-zA-Z0-9_-]{11}) at s[i:]
IdAt(s, i) ==
    /\ i >= 1
    /\ i + IdLen - 1 <= Len(s)
    /\ \A k \in 0..(IdLen - 1) : s[i + k] \in IdChars

\* the alternatives of the non-capturing group of patterns[0]
WatchMarkers == << <<"y", "o", "u", "t", "u", "b", "e", ".", "c", "o", "m", "/", "w", "a", "t", "c", "h", "?", "v", "=">>, <<"y", "o", "u", "t", "u", ".", "b", "e", "/">>, <<"y", "o", "u", "t", "u", "b", "e", ".", "c", "o", "m", "/", "e", "m", "b", "e", "d", "/">> >>

\* the non-capturing group of patterns[1]
ShortsMarkers == << <<"y", "o", "u", "t", "u", "b", "e", ".", "c", "o", "m", "/", "s", "h", "o", "r", "t", "s", "/">> >>

\* No match: re.search returned None.  A match is its group(1), never empty.
None == <<>>

\* the first alternative, in order, that matches at i with an id after it
AltAt(s, i, markers) ==
    IF \E m \in 1..Len(markers) :
          MatchAt(s, i, markers[m]) /\ IdAt(s, i + Len(markers[m]))
    THEN LET m == CHOOSE m \in 1..Len(markers) :
                    /\ MatchAt(s, i, markers[m]) /\ IdAt(s, i + Len(markers[m]))
                    /\ \A n \in 1..(m - 1) :
                         ~(MatchAt(s, i, markers[n]) /\ IdAt(s, i + Len(markers[n])))
             b == i + Len(markers[m])
         IN  SubSeq(s, b, b + IdLen - 1)
    ELSE None

\* re.search(r'(?:m1|m2|...)([a-zA-Z0-9_-]{11})', s): the leftmost match's group(1)
SearchMarked(s, markers) ==
    LET hits == {i \in 1..Len(s) : AltAt(s, i, markers) # None}
    IN  IF hits = {} THEN None
        ELSE AltAt(s, CHOOSE i \in hits : \A j \in hits : i <= j, markers)

\* The bare pattern, searched anywhere in the string.
SearchBareUnanchored(s) ==
    LET hits == {i \in 1..Len(s) : IdAt(s, i)}
    IN  IF hits = {} THEN None
        ELSE LET i == CHOOSE i \in hits : \A j \in hits : i <= j
             IN  SubSeq(s, i, i + IdLen - 1)

\* re.search(r'^([a-zA-Z0-9_-]{11})$', s): ^ is the start of the string, $ is the
\* end of the string or the place before a newline that ends the string
SearchBare(s) ==
    IF /\ IdAt(s, 1)
       /\ \/ Len(s) = IdLen
          \/ Len(s) = IdLen + 1 /\ s[IdLen + 1] = "\n"
    THEN SubSeq(s, 1, IdLen)
    ELSE None

\* patterns, in the order of the list
patterns(s) == << SearchMarked(s, WatchMarkers),
                  SearchMarked(s, ShortsMarkers),
                  SearchBare(s) >>

\* for pattern in patterns: ... return match.group(1); raise ValueError
extract_video_id(s) ==
    LET ms == patterns(s)
        hit == {p \in 1..Len(ms) : ms[p] # None}
    IN  IF hit = {} THEN [raised |-> TRUE, value |-> None]
        ELSE [raised |-> FALSE,
              value  |-> ms[CHOOSE p \in hit : \A q \in hit : p <= q]]

(***************************************************************************)
(* get_transcript: the classification of an upstream failure               *)
(***************************************************************************)
DisabledMsg == "Transcripts are disabled for this video"

NotFoundMsg == "No transcript found for this video"

FetchFailedMsg == "Failed to fetch transcript"

ExtractionMsg == "Could not extract video ID from URL"

\* except Exception as e: the message of the ValueError raised for str(e)
FetchErrorDetail(msg) ==
    LET error_msg == LowerStr(msg)
    IN  IF Contains(error_msg, <<"d", "i", "s", "a", "b", "l", "e", "d">>) THEN DisabledMsg
        ELSE IF Contains(error_msg, <<"n", "o", " ", "t", "r", "a", "n", "s", "c", "r", "i", "p", "t">>) THEN NotFoundMsg
        ELSE FetchFailedMsg

(***************************************************************************)
(* clean_transcript                                                        *)
(***************************************************************************)
\* the alternatives of the fillers pattern, in order
fillers == << <<"u", "m">>, <<"u", "h">>, <<"e", "r">>, <<"a", "h">>, <<"l", "i", "k", "e">>, <<"y", "o", "u", " ", "k", "n", "o", "w">>, <<"i", " ", "m", "e", "a", "n">>,
              <<"b", "a", "s", "i", "c", "a", "l", "l", "y">>, <<"a", "c", "t", "u", "a", "l", "l", "y">>, <<"l", "i", "t", "e", "r", "a", "l", "l", "y">> >>

\* s[i:] starts with the lower-case literal lit, under re.IGNORECASE
MatchAtCI(s, i, lit) ==
    /\ i + Len(lit) - 1 <= Len(s)
    /\ \A k \in 1..Len(lit) : Lower(s[i + k - 1]) = lit[k]

IsWordAt(s, k) == k >= 1 /\ k <= Len(s) /\ s[k] \in WordChars

\* \b between s[k] and s[k+1]; k = 0 is the start and k = Len(s) the end
Boundary(s, k) == IsWordAt(s, k) # IsWordAt(s, k + 1)

\* The alternatives matched as substrings, with no \b on either side.
FillerAtNoBoundary(s, i) ==
    LET ok(f) == MatchAtCI(s, i, fillers[f])
    IN  IF \E f \in 1..Len(fillers) : ok(f)
        THEN Len(fillers[CHOOSE f \in 1..Len(fillers) :
                           ok(f) /\ \A g \in 1..(f - 1) : ~ok(g)])
        ELSE 0

\* \b(um|uh|...)\b at s[i:]: the length of the match, 0 when there is none
FillerAt(s, i) ==
    LET ok(f) == /\ MatchAtCI(s, i, fillers[f])
                 /\ Boundary(s, i + Len(fillers[f]) - 1)
    IN  IF Boundary(s, i - 1) /\ \E f \in 1..Len(fillers) : ok(f)
        THEN Len(fillers[CHOOSE f \in 1..Len(fillers) :
                           ok(f) /\ \A g \in 1..(f - 1) : ~ok(g)])
        ELSE 0

\* re.sub(filler, '', full_text, flags=re.IGNORECASE), from s[i:] on
RECURSIVE RemoveFillersFrom(_, _)
RemoveFillersFrom(s, i) ==
    IF i > Len(s) THEN <<>>
    ELSE LET n == FillerAt(s, i)
         IN  IF n > 0 THEN RemoveFillersFrom(s, i + n)
             ELSE <<s[i]>> \o RemoveFillersFrom(s, i + 1)

RemoveFillers(s) == RemoveFillersFrom(s, 1)

\* the last index of the run of whitespace that starts at s[i]
RunEnd(s, i) ==
    CHOOSE j \in i..Len(s) :
        /\ \A k \in i..j : s[k] \in SpaceChars
        /\ j = Len(s) \/ s[j + 1] \notin SpaceChars

\* re.sub(r'\s+', ' ', s), from s[i:] on
RECURSIVE CollapseFrom(_, _)
CollapseFrom(s, i) ==
    IF i > Len(s) THEN <<>>
    ELSE IF s[i] \in SpaceChars THEN <<" ">> \o CollapseFrom(s, RunEnd(s, i) + 1)
    ELSE <<s[i]>> \o CollapseFrom(s, i + 1)

CollapseWhitespace(s) == CollapseFrom(s, 1)

\* str.strip()
Strip(s) ==
    LET keep == {i \in 1..Len(s) : s[i] \notin SpaceChars}
    IN  IF keep = {} THEN <<>>
        ELSE SubSeq(s, CHOOSE i \in keep : \A j \in keep : i <= j,
                       CHOOSE i \in keep : \A j \in keep : i >= j)

\* re.sub(r'\s+([.,!?])', r'\1', s), from s[i:] on
RECURSIVE FixPunctuationFrom(_, _)
FixPunctuationFrom(s, i) ==
    IF i > Len(s) THEN <<>>
    ELSE IF s[i] \in SpaceChars
    THEN LET j == RunEnd(s, i)
         IN  IF j < Len(s) /\ s[j + 1] \in PunctChars
             THEN FixPunctuationFrom(s, j + 1)
             ELSE SubSeq(s, i, j) \o FixPunctuationFrom(s, j + 1)
    ELSE <<s[i]>> \o FixPunctuationFrom(s, i + 1)

FixPunctuation(s) == FixPunctuationFrom(s, 1)

\* re.split(r'(?<=[.!?])\s+', s): i scans, the piece being read starts at from
RECURSIVE SplitFrom(_, _, _)
SplitFrom(s, i, from) ==
    IF i > Len(s) THEN << SubSeq(s, from, Len(s)) >>
    ELSE IF s[i] \in SpaceChars /\ i > 1 /\ s[i - 1] \in SentenceEnd
    THEN LET j == RunEnd(s, i)
         IN  << SubSeq(s, from, i - 1) >> \o SplitFrom(s, j + 1, j + 1)
    ELSE SplitFrom(s, i + 1, from)

SplitSentences(s) == SplitFrom(s, 1, 1)

\* len(current_paragraph) >= 4
SentencesPerParagraph == 4

\* for sentence in sentences: ...; if current_paragraph: ..., from sentence k on
RECURSIVE GroupFrom(_, _, _, _, _)
GroupFrom(sents, k, current_paragraph, paras, width) ==
    IF k > Len(sents)
    THEN IF current_paragraph # <<>>
         THEN Append(paras, Join(current_paragraph, <<" ">>))
         ELSE paras
    ELSE LET cur == Append(current_paragraph, sents[k])
         IN  IF Len(cur) >= width
             THEN GroupFrom(sents, k + 1, <<>>, Append(paras, Join(cur, <<" ">>)), width)
             ELSE GroupFrom(sents, k + 1, cur, paras, width)

\* The loop without its closing `if current_paragraph:`.
GroupParagraphsDropLast(sents) ==
    LET all == GroupFrom(sents, 1, <<>>, <<>>, SentencesPerParagraph)
    IN  IF Len(sents) % SentencesPerParagraph = 0 THEN all
        ELSE SubSeq(all, 1, Len(all) - 1)

\* paragraphs, from sentences (clean_transcript)
GroupParagraphs(sents) == GroupFrom(sents, 1, <<>>, <<>>, SentencesPerParagraph)

\* Fragments joined with no separator.
JoinFragmentsNoSpace(fragments) ==
    Join([i \in 1..Len(fragments) |-> fragments[i].text], <<>>)

\* ' '.join(segment['text'] for segment in transcript)
JoinFragments(fragments) ==
    Join([i \in 1..Len(fragments) |-> fragments[i].text], <<" ">>)

\* full_text after the three re.sub calls and the strip
Normalize(fragments) ==
    FixPunctuation(Strip(CollapseWhitespace(RemoveFillers(JoinFragments(fragments)))))

\* sentences
CleanSentences(fragments) == SplitSentences(Normalize(fragments))

\* paragraphs
CleanParagraphs(fragments) == GroupParagraphs(CleanSentences(fragments))

clean_transcript(fragments) == Join(CleanParagraphs(fragments), <<"\n", "\n">>)

(***************************************************************************)
(* format_transcript, process_transcript                                   *)
(***************************************************************************)
\* len(current) >= 4
FormatSentencesPerParagraph == 4

\* A pass that breaks paragraphs every 3 sentences.
format_transcript_every3(text) ==
    Join(GroupFrom(SplitSentences(Strip(text)), 1, <<>>, <<>>, 3), <<"\n", "\n">>)

format_transcript(text) ==
    Join(GroupFrom(SplitSentences(Strip(text)), 1, <<>>, <<>>,
                   FormatSentencesPerParagraph),
         <<"\n", "\n">>)

(***************************************************************************)
(* Inputs                                                                  *)
(***************************************************************************)
\* how far a token's length may be from IdLen
MaxSkew == 1

\* how many generated fragments a transcript may hold
MaxFrags == 3

\* how many one-sentence fragments a transcript may hold
MaxSentences == 9

Take(s, n) == SubSeq(s, 1, n)

\* what may precede the marker
Prefixes == { <<>>, <<"h", "t", "t", "p", "s", ":", "/", "/">>, <<"h", "t", "t", "p", "s", ":", "/", "/", "w", "w", "w", ".">>, <<" ">>, <<"\n">> }

WatchParamMarker == <<"y", "o", "u", "t", "u", "b", "e", ".", "c", "o", "m", "/", "w", "a", "t", "c", "h", "?", "f", "e", "a", "t", "u", "r", "e", "=", "s", "h", "a", "r", "e", "&", "v", "=">>

\* the markers of the patterns
RecognizedMarkers == { WatchMarkers[m] : m \in 1..Len(WatchMarkers) }
                        \cup { ShortsMarkers[m] : m \in 1..Len(ShortsMarkers) }

\* hosts and paths no pattern names
ForeignMarkers == { <<"e", "x", "a", "m", "p", "l", "e", ".", "c", "o", "m", "/">>, <<"y", "o", "u", "t", "u", "b", "e", ".", "c", "o", "m", "/", "v", "/">> }

\* <<>> is the bare form: no marker at all
Markers == RecognizedMarkers \cup ForeignMarkers \cup { WatchParamMarker, <<>> }

\* what may follow the token
Suffixes == { <<>>, <<"&", "t", "=", "1", "s">>, <<"?", "s", "i", "=", "a">>, <<"/">>, <<" ">>, <<"\n">>, <<"\n", "\n">> }

\* the last one has a character outside the identifier alphabet
TokenBases == { <<"d", "Q", "w", "4", "w", "9", "W", "g", "X", "c", "Q", "_", "-", "A", "b", "3">>, <<"a", "1", "B", "2", "c", "3", "D", "4", "e", "5", "F", "6", "g", "7", "H", "8">>, <<"d", "Q", "w", "4", "w", "9", "W", "g", ".", "X", "c", "Q", "_", "-", "A", "b">> }

Tokens == { Take(b, n) : b \in TokenBases,
                         n \in (IdLen - MaxSkew)..(IdLen + MaxSkew) }

IsIdentifier(t) == \A k \in 1..Len(t) : t[k] \in IdChars

ValidIds == { t \in Tokens : Len(t) = IdLen /\ IsIdentifier(t) }

UrlOf(p, m, t, a) == p \o m \o t \o a

Urls == { UrlOf(p, m, t, a) : p \in Prefixes, m \in Markers, t \in Tokens, a \in Suffixes }

\* the URLs the handler is run on
RequestUrls == { UrlOf(<<"h", "t", "t", "p", "s", ":", "/", "/">>, m, t, a) :
                   m \in Markers, t \in Tokens, a \in { <<>>, <<"&", "t", "=", "1", "s">> } }

Fragment(s) == [text |-> s]

\* the texts of the generated fragments
FragmentTexts == { <<"y", "o", "u">>, <<"k", "n", "o", "w">>, <<"u", "m">>, <<"L", "i", "k", "e", ",">>, <<"u", "n", "l", "i", "k", "e">>, <<"i", "t", " ", ".">>, <<"A", "h", "!", "\n">> }

GeneratedTranscripts ==
    UNION { [1..n -> { Fragment(s) : s \in FragmentTexts }] : n \in 0..MaxFrags }

\* the texts of the one-sentence fragments
SentenceTexts == { <<"A", ".">>, <<"n", "o", "?">> }

SentenceTranscripts ==
    UNION { [1..n -> { Fragment(s) : s \in SentenceTexts }] : n \in 1..MaxSentences }

WordBoundaryText == <<"I", " ", "a", "c", "t", "u", "a", "l", "l", "y", " ", "a", "c", "t", "u", "a", "l", "i", "t", "y", " ", "l", "i", "k", "e", " ", "t", "h", "i", "s">>

PunctuationText == <<"H", "e", "l", "l", "o", " ", ",", " ", "w", "o", "r", "l", "d", " ", "!">>

ScenarioFragments == << Fragment(<<"U", "m", ",", " ", "I", " ", "t", "h", "i", "n", "k">>), Fragment(<<"t", "h", "i", "s", " ", "i", "s", ",", " ", "l", "i", "k", "e", ",", " ", "g", "r", "e", "a", "t", ".">>) >>

ScenarioTranscripts ==
    { << Fragment(WordBoundaryText) >>,
      << Fragment(PunctuationText) >>,
      ScenarioFragments,
      << Fragment(<<"y", "o", "u", " ", " ", "k", "n", "o", "w", " ", "i", "t", ".", " ", "I", "\t", "m", "e", "a", "n", " ", "i", "t", "!">>) >>,
      << Fragment(<<"A", ".", " ", "B", "!", " ", "C", "?", " ", "D", ".", " ", "E", ".", " ", "F", ".">>), Fragment(<<"G", ".", " ", "H", ".", " ", "I", ".">>) >> }

Transcripts == GeneratedTranscripts \cup SentenceTranscripts \cup ScenarioTranscripts

\* str(e) of what api.fetch may raise
UpstreamErrors == { <<"S", "u", "b", "t", "i", "t", "l", "e", "s", " ", "a", "r", "e", " ", "d", "i", "s", "a", "b", "l", "e", "d", " ", "f", "o", "r", " ", "t", "h", "i", "s", " ", "v", "i", "d", "e", "o">>,
                    <<"N", "o", " ", "t", "r", "a", "n", "s", "c", "r", "i", "p", "t", "s", " ", "w", "e", "r", "e", " ", "f", "o", "u", "n", "d">>,
                    <<"V", "i", "d", "e", "o", " ", "u", "n", "a", "v", "a", "i", "l", "a", "b", "l", "e">>,
                    <<"N", "o", " ", "T", "r", "a", "n", "s", "c", "r", "i", "p", "t", ":", " ", "c", "a", "p", "t", "i", "o", "n", "s", " ", "D", "I", "S", "A", "B", "L", "E", "D">> }

(***************************************************************************)
(* process_video, one action per call it makes                             *)
(***************************************************************************)
\* video_id = extract_video_id(url); a ValueError ends in HTTP 400
ExtractVideoId ==
    /\ pc = "extract"
    /\ LET r == extract_video_id(url)
       IN  \/ /\ ~r.raised
              /\ video_id' = r.value
              /\ pc' = "fetch"
              /\ UNCHANGED <<status, detail>>
           \/ /\ r.raised
              /\ pc' = "failed"
              /\ status' = 400
              /\ detail' = ExtractionMsg
              /\ UNCHANGED video_id
    /\ UNCHANGED <<url, raw, sentences, paragraphs, transcript, notes, recleaned>>

\* raw_transcript = get_transcript(video_id); every failure is re-raised as a
\* ValueError, which process_video answers with HTTP 400
GetTranscript ==
    /\ pc = "fetch"
    /\ \/ \E t \in ScenarioTranscripts :
              /\ raw' = t
              /\ pc' = "clean"
              /\ UNCHANGED <<status, detail>>
       \/ \E msg \in UpstreamErrors :
              /\ pc' = "failed"
              /\ status' = 400
              /\ detail' = FetchErrorDetail(msg)
              /\ UNCHANGED raw
    /\ UNCHANGED <<url, video_id, sentences, paragraphs, transcript, notes, recleaned>>

\* cleaned = clean_transcript(raw_transcript)
CleanTranscript ==
    /\ pc = "clean"
    /\ sentences' = CleanSentences(raw)
    /\ paragraphs' = CleanParagraphs(raw)
    /\ transcript' = clean_transcript(raw)
    /\ pc' = "format"
    /\ UNCHANGED <<url, video_id, raw, notes, recleaned, status, detail>>

\* result = process_transcript(transcript); result['notes']
ProcessTranscript ==
    /\ pc = "format"
    /\ notes' = format_transcript(transcript)
    /\ pc' = "save"
    /\ UNCHANGED <<url, video_id, raw, sentences, paragraphs, transcript,
                   recleaned, status, detail>>

\* write_text, create_word_document, return ProcessResponse(...); a failure
\* of the file system is no ValueError and ends in HTTP 500
SaveAndRespond ==
    /\ pc = "save"
    /\ \/ /\ pc' = "done"
          /\ status' = 200
          /\ UNCHANGED detail
       \/ /\ pc' = "failed"
          /\ status' = 500
          /\ detail' = "OSError"
    /\ UNCHANGED <<url, video_id, raw, sentences, paragraphs, transcript, notes,
                   recleaned>>

\* clean_transcript on its own output, as one fragment
CleanAgain ==
    /\ pc = "save"
    /\ recleaned' = clean_transcript(<< Fragment(transcript) >>)
    /\ pc' = "again"
    /\ UNCHANGED <<url, video_id, raw, sentences, paragraphs, transcript, notes,
                   status, detail>>

Blank ==
    /\ video_id = <<>>
    /\ sentences = <<>>
    /\ paragraphs = <<>>
    /\ transcript = <<>>
    /\ notes = <<>>
    /\ recleaned = <<>>
    /\ status = 0
    /\ detail = ""

\* a request to /process
Init ==
    /\ pc = "extract"
    /\ url \in RequestUrls
    /\ raw = <<>>
    /\ Blank

Next == ExtractVideoId \/ GetTranscript \/ CleanTranscript \/ ProcessTranscript
           \/ SaveAndRespond

Spec == Init /\ [][Next]_vars

\* extract_video_id alone, on every URL
InitExtract ==
    /\ pc = "extract"
    /\ url \in Urls
    /\ raw = <<>>
    /\ Blank

NextExtract == ExtractVideoId

SpecExtract == InitExtract /\ [][NextExtract]_vars

\* the normalizer and the formatting pass alone, on canned fragment sequences
InitClean ==
    /\ pc = "clean"
    /\ url = <<>>
    /\ raw \in Transcripts
    /\ Blank

NextClean == CleanTranscript \/ ProcessTranscript \/ CleanAgain

SpecClean == InitClean /\ [][NextClean]_vars

(***************************************************************************)
(* Properties                                                              *)
(***************************************************************************)
Extracted == pc # "extract"

Cleaned == pc \in {"format", "save", "again", "done"}

\* the shapes of section 4.1, the watch form also with a parameter before v=
SupportedMarkers == RecognizedMarkers \cup { WatchParamMarker }

\* query parameters and path segments after the identifier
QuerySuffixes == { <<>>, <<"&", "t", "=", "1", "s">>, <<"?", "s", "i", "=", "a">>, <<"/">> }

UrlPrefixes == { <<>>, <<"h", "t", "t", "p", "s", ":", "/", "/">>, <<"h", "t", "t", "p", "s", ":", "/", "/", "w", "w", "w", ".">> }

\* C1: every URL of a supported shape (watch?v=, youtu.be/, embed/, shorts/,
\* with whatever query parameters or path segments surround the identifier)
\* and the bare identifier alone yield exactly the embedded 11-character
\* identifier.
C1_SupportedShapesReturnId ==
    Extracted =>
      /\ \A p \in UrlPrefixes, m \in SupportedMarkers, t \in ValidIds, a \in QuerySuffixes :
            url = UrlOf(p, m, t, a) => pc = "fetch" /\ video_id = t
      /\ \A t \in ValidIds : url = t => pc = "fetch" /\ video_id = t

\* C1, for the URLs in which the marker stands directly before the identifier:
\* this much the code does.
C1_MarkerDirectlyBeforeId ==
    Extracted =>
      /\ \A p \in Prefixes, m \in RecognizedMarkers, t \in ValidIds, a \in QuerySuffixes :
            url = UrlOf(p, m, t, a) => pc = "fetch" /\ video_id = t
      /\ \A t \in ValidIds : url = t => pc = "fetch" /\ video_id = t

ExtractionFailed == pc = "failed" /\ detail = ExtractionMsg /\ video_id = <<>>

\* C2: extraction fails, and returns no identifier, for every input with no
\* 11-character identifier in a recognized position (a foreign host or path, a
\* token with a character outside the alphabet) and for every input whose
\* identifier in a recognized position is shorter or longer than 11.
C2_WrongLengthRejected ==
    Extracted =>
      /\ \A p \in Prefixes, m \in RecognizedMarkers \cup { <<>> }, t \in Tokens, a \in Suffixes :
            (url = UrlOf(p, m, t, a) /\ IsIdentifier(t) /\ Len(t) # IdLen)
               => ExtractionFailed
      /\ \A p \in Prefixes, m \in RecognizedMarkers \cup ForeignMarkers, t \in Tokens, a \in Suffixes :
            (url = UrlOf(p, m, t, a) /\ (m \in ForeignMarkers \/ ~IsIdentifier(t)))
               => ExtractionFailed

\* C2, for the tokens that are too short or not identifiers, and for foreign
\* hosts: these the code rejects.
C2_ShortOrForeignRejected ==
    Extracted =>
      /\ \A p \in Prefixes, m \in RecognizedMarkers \cup { <<>> }, t \in Tokens, a \in Suffixes :
            (url = UrlOf(p, m, t, a) /\ IsIdentifier(t) /\ Len(t) < IdLen)
               => ExtractionFailed
      /\ \A p \in Prefixes, m \in RecognizedMarkers \cup ForeignMarkers, t \in Tokens, a \in Suffixes :
            (url = UrlOf(p, m, t, a) /\ (m \in ForeignMarkers \/ ~IsIdentifier(t)))
               => ExtractionFailed

\* neither URL pattern finds a marker with an identifier after it
NoUrlMatch(s) ==
    \A m \in RecognizedMarkers, i \in 1..Len(s) :
        ~(/\ MatchAt(s, i, m)
          /\ i + Len(m) + IdLen - 1 <= Len(s)
          /\ IsIdentifier(SubSeq(s, i + Len(m), i + Len(m) + IdLen - 1)))

IsVideoId(t) == Len(t) = IdLen /\ IsIdentifier(t)

\* C3 (as amended): when no URL pattern matches, extraction succeeds exactly
\* when the whole input, untrimmed, is an 11-character identifier, or one
\* followed by a single final newline, and then returns that identifier; an
\* identifier with any other whitespace around it is rejected, and an
\* 11-character run inside a longer string is never returned.
C3_BareAnchoredUntrimmed ==
    (Extracted /\ NoUrlMatch(url)) =>
      LET whole == \/ IsVideoId(url)
                   \/ /\ Len(url) = IdLen + 1
                      /\ url[IdLen + 1] = "\n"
                      /\ IsVideoId(Take(url, IdLen))
      IN  /\ whole => pc = "fetch" /\ video_id = Take(url, IdLen)
          /\ ~whole => ExtractionFailed

\* C3 (as stated): when no URL pattern matches, extraction succeeds exactly
\* when the input, trimmed of leading and trailing whitespace, is an
\* 11-character identifier, and then returns it.
C3_BareTrimmed ==
    (Extracted /\ NoUrlMatch(url)) =>
      /\ IsVideoId(Strip(url)) => pc = "fetch" /\ video_id = Strip(url)
      /\ ~IsVideoId(Strip(url)) => ExtractionFailed

\* C3: an identifier with whitespace around it has been rejected
C3_Witness ==
    /\ ExtractionFailed
    /\ NoUrlMatch(url)
    /\ IsVideoId(Strip(url))
    /\ url # Strip(url)

\* C4: an extraction failure, transcripts-disabled and transcript-not-found
\* end in a 4xx status; an unexpected fetch failure and every other failure
\* end in a 5xx status.
C4_FailureMapping ==
    pc = "failed" =>
      /\ detail \in {ExtractionMsg, DisabledMsg, NotFoundMsg} => status \in 400..499
      /\ detail \notin {ExtractionMsg, DisabledMsg, NotFoundMsg} => status \in 500..599

\* C4, without the unexpected fetch failure: this much the code does.
C4_MappingButFetchFailed ==
    (pc = "failed" /\ detail # FetchFailedMsg) =>
      /\ detail \in {ExtractionMsg, DisabledMsg, NotFoundMsg} => status \in 400..499
      /\ detail \notin {ExtractionMsg, DisabledMsg, NotFoundMsg} => status \in 500..599

\* C5: normalization is idempotent: the output of clean_transcript, fed back
\* as one fragment, comes out unchanged.
C5_CleanIdempotent == pc = "again" => recleaned = transcript

\* a paragraph separator starts at s[i]
SeparatorAt(s, i) ==
    /\ i >= 1 /\ i + 1 <= Len(s)
    /\ s[i] = "\n" /\ s[i + 1] = "\n"
    /\ i > 1 /\ s[i - 1] \notin SpaceChars
    /\ i + 2 <= Len(s) /\ s[i + 2] \notin SpaceChars

\* s[i] is one space between two characters that are no whitespace
SingleSpaceAt(s, i) ==
    /\ s[i] = " "
    /\ i > 1 /\ s[i - 1] \notin SpaceChars
    /\ i < Len(s) /\ s[i + 1] \notin SpaceChars

NoLongWhitespace(s) ==
    \A i \in 1..Len(s) :
        s[i] \in SpaceChars =>
            SingleSpaceAt(s, i) \/ SeparatorAt(s, i) \/ SeparatorAt(s, i - 1)

NoStandaloneFiller(s) ==
    \A i \in 1..Len(s), f \in 1..Len(fillers) :
        ~(/\ Boundary(s, i - 1)
          /\ MatchAtCI(s, i, fillers[f])
          /\ Boundary(s, i + Len(fillers[f]) - 1))

NoSpaceBeforePunctuation(s) ==
    \A i \in 1..(Len(s) - 1) : ~(s[i] \in SpaceChars /\ s[i + 1] \in PunctChars)

\* C6: the output of clean_transcript has no whitespace but single spaces and
\* the two-newline paragraph separator, no lexicon filler left as a standalone
\* word or phrase, and no whitespace before . , ! or ?; "Hello , world !"
\* becomes "Hello, world!".
C6_CleanInvariant ==
    Cleaned =>
      /\ NoLongWhitespace(transcript)
      /\ NoStandaloneFiller(transcript)
      /\ NoSpaceBeforePunctuation(transcript)
      /\ raw = << Fragment(PunctuationText) >> => transcript = <<"H", "e", "l", "l", "o", ",", " ", "w", "o", "r", "l", "d", "!">>

\* C6, without the filler part: this much the code does.
C6_WhitespaceAndPunctuation ==
    Cleaned =>
      /\ NoLongWhitespace(transcript)
      /\ NoSpaceBeforePunctuation(transcript)
      /\ raw = << Fragment(PunctuationText) >> => transcript = <<"H", "e", "l", "l", "o", ",", " ", "w", "o", "r", "l", "d", "!">>

\* the maximal runs of word characters of s, from s[i] on, as <<first, last>>
RECURSIVE WordSpansFrom(_, _)
WordSpansFrom(s, i) ==
    IF i > Len(s) THEN <<>>
    ELSE IF s[i] \in WordChars
    THEN LET j == CHOOSE j \in i..Len(s) :
                    /\ \A k \in i..j : s[k] \in WordChars
                    /\ j = Len(s) \/ s[j + 1] \notin WordChars
         IN  << <<i, j>> >> \o WordSpansFrom(s, j + 1)
    ELSE WordSpansFrom(s, i + 1)

Words(s) ==
    LET spans == WordSpansFrom(s, 1)
    IN  [k \in 1..Len(spans) |-> SubSeq(s, spans[k][1], spans[k][2])]

\* s[a..b], a whole word, is the word w whatever its case
IsWord(s, a, b, w) ==
    /\ a >= 1 /\ b <= Len(s) /\ b - a + 1 = Len(w)
    /\ LowerStr(SubSeq(s, a, b)) = w
    /\ ~IsWordAt(s, a - 1) /\ ~IsWordAt(s, b + 1)

OneWordFillers == { <<"u", "m">>, <<"u", "h">>, <<"e", "r">>, <<"a", "h">>, <<"l", "i", "k", "e">>, <<"b", "a", "s", "i", "c", "a", "l", "l", "y">>, <<"a", "c", "t", "u", "a", "l", "l", "y">>, <<"l", "i", "t", "e", "r", "a", "l", "l", "y">> }

TwoWordFillers == { << <<"y", "o", "u">>, <<"k", "n", "o", "w">> >>, << <<"i">>, <<"m", "e", "a", "n">> >> }

\* the word s[a..b] is a lexicon word by itself, or one half of a lexicon
\* phrase whose halves stand one space apart
IsFillerWord(s, a, b) ==
    \/ \E w \in OneWordFillers : IsWord(s, a, b, w)
    \/ \E ph \in TwoWordFillers :
          \/ /\ IsWord(s, a, b, ph[1])
             /\ b + 1 <= Len(s) /\ s[b + 1] = " "
             /\ IsWord(s, b + 2, b + 1 + Len(ph[2]), ph[2])
          \/ /\ IsWord(s, a, b, ph[2])
             /\ a - 1 >= 1 /\ s[a - 1] = " "
             /\ IsWord(s, a - 1 - Len(ph[1]), a - 2, ph[1])

KeptWords(s) ==
    LET spans == WordSpansFrom(s, 1)
        kept == SelectSeq(spans, LAMBDA sp : ~IsFillerWord(s, sp[1], sp[2]))
    IN  [k \in 1..Len(kept) |-> SubSeq(s, kept[k][1], kept[k][2])]

\* C7 (as amended): the words of the output are the words of the joined
\* input, unchanged and in order, less those that are a lexicon word by
\* themselves or half of a lexicon phrase written with one space; a word that
\* only contains a filler stays.  "I actually actuality like this" becomes
\* "I actuality this".
C7_WholeWordsOnly ==
    Cleaned =>
      /\ Words(transcript) = KeptWords(JoinFragments(raw))
      /\ raw = << Fragment(WordBoundaryText) >> => transcript = <<"I", " ", "a", "c", "t", "u", "a", "l", "i", "t", "y", " ", "t", "h", "i", "s">>

\* C7 (as stated): "I actually actuality like this" becomes "actuality this".
C7_ScenarioAsStated ==
    (Cleaned /\ raw = << Fragment(WordBoundaryText) >>) => transcript = <<"a", "c", "t", "u", "a", "l", "i", "t", "y", " ", "t", "h", "i", "s">>

\* C7: the scenario has been normalized
C7_Witness ==
    /\ pc = "format"
    /\ raw = << Fragment(WordBoundaryText) >>
    /\ Len(Words(transcript)) = 3

Min(a, b) == IF a < b THEN a ELSE b

\* C8: n >= 1 sentences give ceil(n/4) paragraphs, paragraph p holding
\* sentences 4(p-1)+1 .. min(4p, n) in order, joined by one space, and the
\* paragraphs are joined by two newlines; 9 sentences give 4, 4 and 1.
C8_GreedyParagraphs ==
    Cleaned =>
      LET n == Len(sentences)
          part(p) == SubSeq(sentences, 4 * (p - 1) + 1, Min(4 * p, n))
      IN  /\ n >= 1
          /\ Len(paragraphs) = (n + 3) \div 4
          /\ \A p \in 1..Len(paragraphs) :
                /\ paragraphs[p] = Join(part(p), <<" ">>)
                /\ SplitSentences(paragraphs[p]) = part(p)
                /\ Len(part(p)) = IF p < Len(paragraphs) THEN 4 ELSE n - 4 * (p - 1)
          /\ transcript = Join(paragraphs, <<"\n", "\n">>)
          /\ n = 9 => [p \in 1..3 |-> Len(SplitSentences(paragraphs[p]))] = <<4, 4, 1>>
          /\ n = 3 => Len(paragraphs) = 1 /\ SplitSentences(paragraphs[1]) = sentences

\* C8: nine sentences have been grouped
C8_Witness ==
    /\ pc = "format"
    /\ Len(sentences) = 9
    /\ Len(paragraphs) = 3

\* the characters of s that are neither word characters nor whitespace
Marks(s) == SelectSeq(s, LAMBDA c : c \notin WordChars \cup SpaceChars)

\* C9 (as amended): the fragments are joined in order with single spaces and
\* normalized; a removed filler takes none of the punctuation next to it with
\* it, so the scenario gives ", I think this is,, great.".
C9_ScenarioOutput ==
    Cleaned =>
      /\ Marks(transcript) = Marks(JoinFragments(raw))
      /\ raw = ScenarioFragments => /\ transcript = <<",", " ", "I", " ", "t", "h", "i", "n", "k", " ", "t", "h", "i", "s", " ", "i", "s", ",", ",", " ", "g", "r", "e", "a", "t", ".">>
                                    /\ Len(paragraphs) = 1

\* C9 (as stated): the scenario gives "I think this is, great.".
C9_ScenarioAsStated ==
    (Cleaned /\ raw = ScenarioFragments) => transcript = <<"I", " ", "t", "h", "i", "n", "k", " ", "t", "h", "i", "s", " ", "i", "s", ",", " ", "g", "r", "e", "a", "t", ".">>

\* C9: the scenario has been normalized
C9_Witness ==
    /\ pc = "format"
    /\ raw = ScenarioFragments
    /\ Len(Marks(transcript)) = 4

\* C10: the formatting pass returns the normalized text unchanged, so the
\* notes are the clean transcript.
C10_FormatIsIdentity == pc \in {"save", "again", "done"} => notes = transcript

\* C10: a transcript of several paragraphs has been formatted
C10_Witness ==
    /\ pc = "save"
    /\ Len(paragraphs) >= 3
    /\ Len(notes) > 0

====
